---- MODULE Spec2Model ----
(***************************************************************************)
(* A model of barrage's game-logic core: the chunked build grid            *)
(* (src/src/map.rs, duplicated in src/src/main.rs) and the command         *)
(* dispatcher pipeline (src/src/ui.rs).                                    *)
(*                                                                         *)
(* Coordinates are Rust i32 (glam IVec2).  TLC's integers are 32-bit too,  *)
(* so every i32 operation below is written so that no intermediate value   *)
(* leaves the i32 range: overflow is detected by comparison and the        *)
(* wrapped result is computed from the operands.  Whether an overflowing   *)
(* `+` or `*` panics or wraps depends on the build (overflow-checks), so   *)
(* the build is a variable chosen in Init.                                 *)
(***************************************************************************)
EXTENDS Integers, Sequences, FiniteSets, TLC

VARIABLES
    overflow_checks, \* TRUE: arithmetic overflow panics (dev profile); FALSE: it wraps
    panicked,        \* TRUE once a panic has unwound out of a call
    chunks,          \* Map::chunks : HashMap<IVec2, ChunkData>
    chunk_entities,  \* ChunkEntity components spawned by create_chunk
    last,            \* the most recent Map call: its arguments and its outcome
    ncalls,          \* number of Map calls made so far
    placements,      \* the try_place calls that returned true: anchor and footprint
    cell,            \* coordinate transform: the cell handed to global_to_chunk
    split,           \* coordinate transform: result of global_to_chunk
    joined,          \* coordinate transform: result of chunk_to_global
    coord_pc,        \* coordinate transform: "start", "split", "joined" or "panic"
    dispatchers,     \* CommandDispatcherPipeline::dispatchers : Vec<Box<dyn CommandDispatcher>>
    event,           \* the CommandEvent handed to the most recent dispatch
    invoked,         \* dispatch_command calls made by the most recent dispatch, in order
    ui_pc,           \* "idle", "registered" or "dispatched"
    buildings,       \* BuildingRegistry::buildings : HashMap<String, BuildingEntry>
    behaviors,       \* CommandRegistry::behaviors : HashMap<String, CommandEntry>
    panels,          \* ControlPanelRegistry::panels : HashMap<String, ControlPanelTree>
    reg_history,     \* the register calls made so far: registry, key and entry
    reg_last,        \* the most recent registry call: what it returned and logged
    nav_tree,        \* the ControlPanelTree of the current selection, None without one
    nav_current,     \* name of the current panel of the selection
    nav_back,        \* back-stack: the panels to return to on Pop
    nav_last,        \* the most recent transition and its outcome
    started,         \* the Startup systems that have run
    cursor,          \* MouseCursor::position: None or Some of the grid position
    toasts,          \* the ToastMessages written by the most recent system run
    built,           \* the invocations of BuildingBuilder::build so far
    control,         \* what the most recent player_controls run did
    transform,       \* the most recent direct call of a coordinate transform
    phase,           \* the schedule being run: "Startup" or "Update"
    sys_pc,          \* per system: where it is in its run of the current schedule
    pending          \* player_controls between check and commit: the anchor cell

mapvars == <<panicked, chunks, chunk_entities, last, ncalls, placements>>
coordvars == <<cell, split, joined, coord_pc>>
uivars == <<dispatchers, event, invoked, ui_pc>>
regvars == <<buildings, behaviors, panels, reg_history, reg_last>>
navvars == <<nav_tree, nav_current, nav_back, nav_last>>
gamevars == <<started, cursor, toasts, built, control>>
schedvars == <<phase, sys_pc, pending>>
othervars == <<regvars, navvars, gamevars, transform, schedvars>>
vars == <<overflow_checks, mapvars, coordvars, uivars, othervars>>

----------------------------------------------------------------------------
(* Bounds of the model *)

\* Map calls explored per run
MaxCalls == 4
\* cells this close to zero, to i32::MIN and to i32::MAX are fed to the transform
CoordSpan == 17
\* dispatchers registered per run
MaxDispatchers == 3
\* register calls on the registries per run
MaxRegistrations == 3
\* panels on the back-stack of a selection
MaxNavDepth == 4

----------------------------------------------------------------------------
(* i32 arithmetic *)

CHUNK_SIZE == 16
CHUNK_SIZE_I32 == CHUNK_SIZE
I32_MAX == 2147483647
I32_MIN == (-I32_MAX) - 1

\* a + b leaves the i32 range
add_overflows(a, b) ==
    \/ b > 0 /\ a > I32_MAX - b
    \/ b < 0 /\ a < I32_MIN - b

\* a + b modulo 2^32, as a signed value
wrapping_add(a, b) ==
    IF b > 0 /\ a > I32_MAX - b THEN (a - I32_MAX - 1) + (b - I32_MAX - 1)
    ELSE IF b < 0 /\ a < I32_MIN - b THEN (a + I32_MAX + 1) + (b + I32_MAX + 1)
    ELSE a + b

\* a * b leaves the i32 range (b > 0)
mul_overflows(a, b) ==
    \/ a > I32_MAX \div b
    \/ a < (I32_MIN + b - 1) \div b

\* a * b modulo 2^32, as a signed value (b > 0 a power of two)
wrapping_mul(a, b) ==
    LET M == ((I32_MAX \div b) + 1) * 2
        r == a % M
    IN IF r >= M \div 2 THEN (r - M) * b ELSE r * b

\* Rust's `/` and `%` on i32 round towards zero (b > 0)
trunc_div(a, b) == IF a >= 0 THEN a \div b ELSE (a + (b - 1)) \div b
trunc_rem(a, b) == a - b * trunc_div(a, b)

\* (mutant) plain `/`: rounds towards zero
div_truncating(a, b) == trunc_div(a, b)

\* i32::div_euclid: q = a / b; if a % b < 0 then q - 1 (b > 0) else q
div_euclid(a, b) ==
    LET q == trunc_div(a, b)
    IN IF trunc_rem(a, b) < 0 THEN q - 1 ELSE q

\* (mutant) plain `%`: takes the sign of the dividend
rem_truncating(a, b) == trunc_rem(a, b)

\* i32::rem_euclid: r = a % b; if r < 0 then r + |b| else r
rem_euclid(a, b) ==
    LET r == trunc_rem(a, b)
    IN IF r < 0 THEN r + b ELSE r

----------------------------------------------------------------------------
(* IVec2 *)

IVec2_new(x, y) == [x |-> x, y |-> y]

\* IVec2 + IVec2 is component-wise i32 `+`
IVec2_add_overflows(a, b) == add_overflows(a.x, b.x) \/ add_overflows(a.y, b.y)
IVec2_add(a, b) == IVec2_new(wrapping_add(a.x, b.x), wrapping_add(a.y, b.y))

----------------------------------------------------------------------------
(* Coordinate transform *)

global_to_chunk(pos) ==
    LET chunk_pos == IVec2_new(div_euclid(pos.x, CHUNK_SIZE_I32),
                               div_euclid(pos.y, CHUNK_SIZE_I32))
        local_pos == IVec2_new(rem_euclid(pos.x, CHUNK_SIZE_I32),
                               rem_euclid(pos.y, CHUNK_SIZE_I32))
    IN <<chunk_pos, local_pos>>

\* chunk * 16 + local on one axis: does an operation overflow, and the wrapped value
axis_to_global_overflows(c, l) ==
    \/ mul_overflows(c, CHUNK_SIZE_I32)
    \/ add_overflows(wrapping_mul(c, CHUNK_SIZE_I32), l)
axis_to_global(c, l) == wrapping_add(wrapping_mul(c, CHUNK_SIZE_I32), l)

chunk_to_global_overflows(chunk_pos, local_pos) ==
    \/ axis_to_global_overflows(chunk_pos.x, local_pos.x)
    \/ axis_to_global_overflows(chunk_pos.y, local_pos.y)

chunk_to_global(chunk_pos, local_pos) ==
    IVec2_new(axis_to_global(chunk_pos.x, local_pos.x),
              axis_to_global(chunk_pos.y, local_pos.y))

----------------------------------------------------------------------------
(* ChunkData and Map *)

LocalAxis == 0 .. (CHUNK_SIZE - 1)

\* (mutant) a new chunk whose tiles start out set
ChunkData_filled == [tiles |-> [x \in LocalAxis |-> [y \in LocalAxis |-> TRUE]]]

\* ChunkData::new: every tile false
ChunkData_new == [tiles |-> [x \in LocalAxis |-> [y \in LocalAxis |-> FALSE]]]

\* tiles[local_pos.x as usize][local_pos.y as usize] is inside the array
\* (a negative i32 cast to usize is far beyond CHUNK_SIZE)
index_in_bounds(local_pos) == local_pos.x \in LocalAxis /\ local_pos.y \in LocalAxis

\* HashMap::insert: the map with key k bound to v, any earlier value replaced
HashMap_insert(m, k, v) == [p \in (DOMAIN m) \cup {k} |-> IF p = k THEN v ELSE m[p]]

\* (mutant) a check loop that passes over an offset whose chunk is missing
RECURSIVE check_occlusion_skips_missing(_, _, _, _, _)
check_occlusion_skips_missing(m, pos, occlusion_map, i, checked) ==
    IF i > Len(occlusion_map) THEN "pass"
    ELSE IF checked /\ IVec2_add_overflows(pos, occlusion_map[i]) THEN "panic"
    ELSE LET check_pos == IVec2_add(pos, occlusion_map[i])
             chunk_pos == IVec2_new(div_euclid(check_pos.x, CHUNK_SIZE_I32),
                                    div_euclid(check_pos.y, CHUNK_SIZE_I32))
             local_pos == IVec2_new(rem_euclid(check_pos.x, CHUNK_SIZE_I32),
                                    rem_euclid(check_pos.y, CHUNK_SIZE_I32))
         IN IF chunk_pos \in DOMAIN m /\ m[chunk_pos].tiles[local_pos.x][local_pos.y]
            THEN "false"
            ELSE check_occlusion_skips_missing(m, pos, occlusion_map, i + 1, checked)

\* (mutant) a check loop that looks at one offset only
check_occlusion_first_only(m, pos, occlusion_map, i, checked) ==
    IF i > Len(occlusion_map) THEN "pass"
    ELSE IF checked /\ IVec2_add_overflows(pos, occlusion_map[i]) THEN "panic"
    ELSE LET check_pos == IVec2_add(pos, occlusion_map[i])
             chunk_pos == IVec2_new(div_euclid(check_pos.x, CHUNK_SIZE_I32),
                                    div_euclid(check_pos.y, CHUNK_SIZE_I32))
             local_pos == IVec2_new(rem_euclid(check_pos.x, CHUNK_SIZE_I32),
                                    rem_euclid(check_pos.y, CHUNK_SIZE_I32))
         IN IF chunk_pos \in DOMAIN m
            THEN IF m[chunk_pos].tiles[local_pos.x][local_pos.y] THEN "false" ELSE "pass"
            ELSE "false"

\* try_place, first loop ("check occlusion"), from offset i on:
\* "pass" when every offset is in an existing chunk and free, "false" on the
\* first offset that is not, "panic" when pos + offset overflows in a checked build
RECURSIVE check_occlusion(_, _, _, _, _)
check_occlusion(m, pos, occlusion_map, i, checked) ==
    IF i > Len(occlusion_map) THEN "pass"
    ELSE IF checked /\ IVec2_add_overflows(pos, occlusion_map[i]) THEN "panic"
    ELSE LET check_pos == IVec2_add(pos, occlusion_map[i])
             chunk_pos == IVec2_new(div_euclid(check_pos.x, CHUNK_SIZE_I32),
                                    div_euclid(check_pos.y, CHUNK_SIZE_I32))
             local_pos == IVec2_new(rem_euclid(check_pos.x, CHUNK_SIZE_I32),
                                    rem_euclid(check_pos.y, CHUNK_SIZE_I32))
         IN IF chunk_pos \in DOMAIN m
            THEN IF m[chunk_pos].tiles[local_pos.x][local_pos.y]
                 THEN "false"
                 ELSE check_occlusion(m, pos, occlusion_map, i + 1, checked)
            ELSE "false"

\* (mutant) a commit loop that stops one offset early
RECURSIVE place_tiles_but_last(_, _, _, _, _)
place_tiles_but_last(m, pos, occlusion_map, i, checked) ==
    IF i >= Len(occlusion_map) THEN [chunks |-> m, ret |-> "true"]
    ELSE IF checked /\ IVec2_add_overflows(pos, occlusion_map[i])
    THEN [chunks |-> m, ret |-> "panic"]
    ELSE LET place_pos == IVec2_add(pos, occlusion_map[i])
             chunk_pos == IVec2_new(div_euclid(place_pos.x, CHUNK_SIZE_I32),
                                    div_euclid(place_pos.y, CHUNK_SIZE_I32))
             local_pos == IVec2_new(rem_euclid(place_pos.x, CHUNK_SIZE_I32),
                                    rem_euclid(place_pos.y, CHUNK_SIZE_I32))
         IN IF chunk_pos \notin DOMAIN m
            THEN [chunks |-> m, ret |-> "panic"]
            ELSE IF m[chunk_pos].tiles[local_pos.x][local_pos.y]
            THEN [chunks |-> m, ret |-> "panic"]
            ELSE place_tiles_but_last(
                    [m EXCEPT ![chunk_pos].tiles[local_pos.x][local_pos.y] = TRUE],
                    pos, occlusion_map, i + 1, checked)

\* (mutant) a second loop without the assertion: a set tile is set again
RECURSIVE place_tiles_no_assert(_, _, _, _, _)
place_tiles_no_assert(m, pos, occlusion_map, i, checked) ==
    IF i > Len(occlusion_map) THEN [chunks |-> m, ret |-> "true"]
    ELSE IF checked /\ IVec2_add_overflows(pos, occlusion_map[i])
    THEN [chunks |-> m, ret |-> "panic"]
    ELSE LET place_pos == IVec2_add(pos, occlusion_map[i])
             chunk_pos == IVec2_new(div_euclid(place_pos.x, CHUNK_SIZE_I32),
                                    div_euclid(place_pos.y, CHUNK_SIZE_I32))
             local_pos == IVec2_new(rem_euclid(place_pos.x, CHUNK_SIZE_I32),
                                    rem_euclid(place_pos.y, CHUNK_SIZE_I32))
         IN IF chunk_pos \notin DOMAIN m
            THEN [chunks |-> m, ret |-> "panic"]
            ELSE place_tiles_no_assert(
                    [m EXCEPT ![chunk_pos].tiles[local_pos.x][local_pos.y] = TRUE],
                    pos, occlusion_map, i + 1, checked)

\* try_place, second loop ("placement possible"), from offset i on: sets each
\* tile; the expect and the assert panic, leaving the tiles set so far
RECURSIVE place_tiles(_, _, _, _, _)
place_tiles(m, pos, occlusion_map, i, checked) ==
    IF i > Len(occlusion_map) THEN [chunks |-> m, ret |-> "true"]
    ELSE IF checked /\ IVec2_add_overflows(pos, occlusion_map[i])
    THEN [chunks |-> m, ret |-> "panic"]
    ELSE LET place_pos == IVec2_add(pos, occlusion_map[i])
             chunk_pos == IVec2_new(div_euclid(place_pos.x, CHUNK_SIZE_I32),
                                    div_euclid(place_pos.y, CHUNK_SIZE_I32))
             local_pos == IVec2_new(rem_euclid(place_pos.x, CHUNK_SIZE_I32),
                                    rem_euclid(place_pos.y, CHUNK_SIZE_I32))
         IN IF chunk_pos \notin DOMAIN m
            THEN [chunks |-> m, ret |-> "panic"]
            ELSE IF m[chunk_pos].tiles[local_pos.x][local_pos.y]
            THEN [chunks |-> m, ret |-> "panic"]
            ELSE place_tiles(
                    [m EXCEPT ![chunk_pos].tiles[local_pos.x][local_pos.y] = TRUE],
                    pos, occlusion_map, i + 1, checked)

\* (mutant) one loop that sets each tile as soon as it has checked it
RECURSIVE place_while_checking(_, _, _, _, _)
place_while_checking(m, pos, occlusion_map, i, checked) ==
    IF i > Len(occlusion_map) THEN [chunks |-> m, ret |-> "true"]
    ELSE IF checked /\ IVec2_add_overflows(pos, occlusion_map[i])
    THEN [chunks |-> m, ret |-> "panic"]
    ELSE LET check_pos == IVec2_add(pos, occlusion_map[i])
             chunk_pos == IVec2_new(div_euclid(check_pos.x, CHUNK_SIZE_I32),
                                    div_euclid(check_pos.y, CHUNK_SIZE_I32))
             local_pos == IVec2_new(rem_euclid(check_pos.x, CHUNK_SIZE_I32),
                                    rem_euclid(check_pos.y, CHUNK_SIZE_I32))
         IN IF chunk_pos \in DOMAIN m /\ ~m[chunk_pos].tiles[local_pos.x][local_pos.y]
            THEN place_while_checking(
                    [m EXCEPT ![chunk_pos].tiles[local_pos.x][local_pos.y] = TRUE],
                    pos, occlusion_map, i + 1, checked)
            ELSE [chunks |-> m, ret |-> "false"]

try_place_single_loop(m, pos, occlusion_map, checked) ==
    place_while_checking(m, pos, occlusion_map, 1, checked)

\* (mutant) a try_place that first creates the chunk of its anchor when missing
try_place_materializing(m, pos, occlusion_map, checked) ==
    LET anchor == global_to_chunk(pos)[1]
        loaded == IF anchor \in DOMAIN m THEN m ELSE HashMap_insert(m, anchor, ChunkData_new)
        c == check_occlusion(loaded, pos, occlusion_map, 1, checked)
    IN IF c = "pass"
       THEN place_tiles(loaded, pos, occlusion_map, 1, checked)
       ELSE [chunks |-> loaded, ret |-> c]

\* Map::try_place on map m: the map afterwards and "true", "false" or "panic"
try_place(m, pos, occlusion_map, checked) ==
    LET c == check_occlusion(m, pos, occlusion_map, 1, checked)
    IN IF c = "pass"
       THEN place_tiles(m, pos, occlusion_map, 1, checked)
       ELSE [chunks |-> m, ret |-> c]

\* (mutant) a query that reports a cell of a missing chunk as free
is_occupied_fail_open(m, chunk_pos, local_pos) ==
    IF chunk_pos \in DOMAIN m
    THEN IF ~index_in_bounds(local_pos) THEN "panic"
         ELSE IF m[chunk_pos].tiles[local_pos.x][local_pos.y] THEN "true" ELSE "false"
    ELSE "false"

\* Map::is_occupied on map m: "true", "false", or "panic" when the index is
\* outside the tile array of an existing chunk
is_occupied(m, chunk_pos, local_pos) ==
    IF chunk_pos \in DOMAIN m
    THEN IF ~index_in_bounds(local_pos) THEN "panic"
         ELSE IF m[chunk_pos].tiles[local_pos.x][local_pos.y] THEN "true" ELSE "false"
    ELSE "true"

\* (mutant) create_chunk without the panic: an existing chunk is silently replaced
create_chunk_overwrite(m, pos) ==
    [chunks |-> HashMap_insert(m, pos, ChunkData_new), ret |-> "unit"]

\* Map::create_chunk on map m: insert runs first and replaces whatever chunk
\* was stored at pos; the panic follows when insert reports an earlier value
create_chunk(m, pos) ==
    [chunks |-> HashMap_insert(m, pos, ChunkData_new),
     ret    |-> IF pos \in DOMAIN m THEN "panic" ELSE "unit"]

----------------------------------------------------------------------------
(* Inputs of the Map calls *)

MaxChunk == I32_MAX \div CHUNK_SIZE
MinChunk == I32_MIN \div CHUNK_SIZE

\* the four chunks around the origin, and the first and the last chunk of the x axis
ChunkPositions ==
    {IVec2_new(x, y) : x \in -1 .. 0, y \in -1 .. 0}
        \cup {IVec2_new(MaxChunk, 0), IVec2_new(MinChunk, 0)}

\* anchors on both sides of the chunk borders at 0, and the last cell of the x axis
AnchorCells ==
    {IVec2_new(x, y) : x \in -1 .. 0, y \in -1 .. 1} \cup {IVec2_new(I32_MAX, 0)}

\* footprints: one cell, the three cells of the atomicity example, the
\* barracks' 2x2 (setup_buildings), and one that lists an offset twice
Footprint1 == <<IVec2_new(0, 0)>>
Footprint3 == <<IVec2_new(0, 0), IVec2_new(1, 0), IVec2_new(0, 1)>>
FootprintBarracks ==
    <<IVec2_new(0, 0), IVec2_new(1, 0), IVec2_new(0, 1), IVec2_new(1, 1)>>
FootprintTwice == <<IVec2_new(0, 0), IVec2_new(0, 0)>>
OcclusionMaps == {Footprint1, Footprint3, FootprintBarracks, FootprintTwice}

\* local positions asked of is_occupied: corners of the tile array, and two outside it
LocalPositions ==
    {IVec2_new(x, y) : x \in {0, CHUNK_SIZE - 1}, y \in {0, CHUNK_SIZE - 1}}
        \cup {IVec2_new(CHUNK_SIZE, 0), IVec2_new(0, -1)}

NoCall ==
    [op |-> "none", pos |-> IVec2_new(0, 0), occlusion_map |-> <<>>,
     local_pos |-> IVec2_new(0, 0), ret |-> "none"]

----------------------------------------------------------------------------
(* Map calls as actions *)

\* a successful placement: where and what
Placement(pos, occlusion_map) == [pos |-> pos, occlusion_map |-> occlusion_map]

CanCall == ~panicked /\ ncalls < MaxCalls

CreateChunk(pos) ==
    /\ CanCall
    /\ LET r == create_chunk(chunks, pos)
       IN /\ chunks' = r.chunks
          /\ panicked' = (r.ret = "panic")
          /\ chunk_entities' =
                IF r.ret = "panic" THEN chunk_entities ELSE chunk_entities \cup {pos}
          /\ last' = [NoCall EXCEPT !.op = "create_chunk", !.pos = pos, !.ret = r.ret]
    /\ ncalls' = ncalls + 1
    /\ UNCHANGED <<overflow_checks, placements, coordvars, uivars, othervars>>

TryPlace(pos, occlusion_map) ==
    /\ CanCall
    /\ LET r == try_place(chunks, pos, occlusion_map, overflow_checks)
       IN /\ chunks' = r.chunks
          /\ panicked' = (r.ret = "panic")
          /\ last' = [NoCall EXCEPT !.op = "try_place", !.pos = pos,
                                    !.occlusion_map = occlusion_map, !.ret = r.ret]
          /\ placements' = IF r.ret = "true"
                           THEN placements \cup {Placement(pos, occlusion_map)}
                           ELSE placements
    /\ ncalls' = ncalls + 1
    /\ UNCHANGED <<overflow_checks, chunk_entities, coordvars, uivars, othervars>>

IsOccupied(chunk_pos, local_pos) ==
    /\ CanCall
    /\ LET r == is_occupied(chunks, chunk_pos, local_pos)
       IN /\ panicked' = (r = "panic")
          /\ last' = [NoCall EXCEPT !.op = "is_occupied", !.pos = chunk_pos,
                                    !.local_pos = local_pos, !.ret = r]
    /\ ncalls' = ncalls + 1
    /\ UNCHANGED <<overflow_checks, chunks, chunk_entities, placements, coordvars, uivars,
                   othervars>>

----------------------------------------------------------------------------
(* Coordinate transform: a cell is split by global_to_chunk and joined again *)

CoordValues ==
    (-CoordSpan .. CoordSpan)
        \cup {I32_MIN + i : i \in 0 .. CoordSpan}
        \cup {I32_MAX - i : i \in 0 .. CoordSpan}

Cells == {IVec2_new(x, y) : x \in CoordValues, y \in CoordValues}

GlobalToChunk ==
    /\ coord_pc = "start"
    /\ split' = global_to_chunk(cell)
    /\ coord_pc' = "split"
    /\ UNCHANGED <<overflow_checks, mapvars, cell, joined, uivars, othervars>>

ChunkToGlobal ==
    /\ coord_pc = "split"
    /\ IF overflow_checks /\ chunk_to_global_overflows(split[1], split[2])
       THEN coord_pc' = "panic" /\ joined' = joined
       ELSE coord_pc' = "joined" /\ joined' = chunk_to_global(split[1], split[2])
    /\ UNCHANGED <<overflow_checks, mapvars, cell, split, uivars, othervars>>

----------------------------------------------------------------------------
(* Command dispatcher pipeline *)

CommandTypes == {"core:move", "core:attack", "core:cancel"}
CommandPayloads == {"None", "TargetPoint", "TargetEntity"}
CommandEvents == [command_type : CommandTypes, payload : CommandPayloads]

\* a dispatcher built by impl_command_dispatcher!: the command types it lists
Dispatchers == [catches : SUBSET CommandTypes]

\* DispatcherImpl::catches: the match over the listed command types
catches(dispatcher, command_type) == command_type \in dispatcher.catches

\* DispatcherImpl::dispatch_command, as seen from outside: the call is recorded
\* with the place of the dispatcher in the pipeline and the event it was given
dispatch_command(calls, i, command_event) ==
    Append(calls, [dispatcher |-> i, event |-> command_event])

\* (mutant) first-match routing: the loop ends after the first dispatcher that catches
RECURSIVE dispatch_first_match(_, _, _, _)
dispatch_first_match(ds, command_event, i, calls) ==
    IF i > Len(ds) THEN calls
    ELSE IF catches(ds[i], command_event.command_type)
    THEN dispatch_command(calls, i, command_event)
    ELSE dispatch_first_match(ds, command_event, i + 1, calls)

\* the for loop of CommandDispatcherPipeline::dispatch, from dispatcher i on
RECURSIVE dispatch_from(_, _, _, _)
dispatch_from(ds, command_event, i, calls) ==
    IF i > Len(ds) THEN calls
    ELSE IF catches(ds[i], command_event.command_type)
    THEN dispatch_from(ds, command_event, i + 1,
                       dispatch_command(calls, i, command_event))
    ELSE dispatch_from(ds, command_event, i + 1, calls)

\* CommandDispatcherPipeline::dispatch: the dispatch_command calls it makes
dispatch(ds, command_event) == dispatch_from(ds, command_event, 1, <<>>)

\* (mutant) the new dispatcher goes to the front of the list
register_dispatcher_front(ds, dispatcher) == <<dispatcher>> \o ds

\* CommandDispatcherPipeline::register_dispatcher
register_dispatcher(ds, dispatcher) == Append(ds, dispatcher)

RegisterDispatcher(dispatcher) ==
    /\ Len(dispatchers) < MaxDispatchers
    /\ dispatchers' = register_dispatcher(dispatchers, dispatcher)
    /\ ui_pc' = "registered"
    /\ UNCHANGED <<overflow_checks, mapvars, coordvars, event, invoked, othervars>>

Dispatch(command_event) ==
    /\ invoked' = dispatch(dispatchers, command_event)
    /\ event' = command_event
    /\ ui_pc' = "dispatched"
    /\ UNCHANGED <<overflow_checks, mapvars, coordvars, dispatchers, othervars>>

----------------------------------------------------------------------------
(* Building, command and control panel registries *)

\* Option<T>
None == [some |-> FALSE]
Some(v) == [some |-> TRUE, value |-> v]

\* HashMap::get
HashMap_get(m, k) == IF k \in DOMAIN m THEN Some(m[k]) ELSE None

BARRACKS_ID == "core:barracks"
BuildingIds == {BARRACKS_ID, "core:tower"}

\* the barracks of setup_buildings; the handles are opaque and left out
BarracksEntry ==
    [occlusion_map |-> FootprintBarracks,
     description   |-> Some("Used to train infantry units."),
     builder       |-> "barracks_builder"]

\* a second building type: one cell, no description
TowerEntry ==
    [occlusion_map |-> Footprint1, description |-> None, builder |-> "tower_builder"]

BuildingEntries == {BarracksEntry, TowerEntry}

CommandInputModes ==
    {"Immediate", "ImmediateSpatial", "SelectTargetedPoint",
     "SelectTargetedEntity", "SelectTargetedPointOrEntity"}

\* CommandEntry values fed to CommandRegistry::register
CommandEntries ==
    [command_type : {"core:move", "core:cancel"},
     input_mode   : {"SelectTargetedPoint", "Immediate"}]

\* PanelTransition and ControlPanelAction
Push(name) == [transition |-> "Push", panel |-> name]
Pop == [transition |-> "Pop"]
ExecuteCommand(command_id) == [action |-> "ExecuteCommand", command_id |-> command_id]
TransitionPanel(transition) == [action |-> "TransitionPanel", transition |-> transition]
ExecuteAndTransition(command_id, transition) ==
    [action |-> "ExecuteAndTransition", command_id |-> command_id,
     transition |-> transition]

\* a ControlPanel: the 5x3 grid, as the actions of its non-empty slots by <<row, column>>
WORKER_ENTITY_TYPE == "core:worker"
MOVE_COMMAND_ID == "core:move"

\* (mutant) the worker tree without its "/build" panel
WorkerTree_without_build ==
    [root   |-> "root",
     panels |->
        [name \in {"/"} |->
            [entries |-> (<<1, 1>> :> ExecuteAndTransition(MOVE_COMMAND_ID, Push("/build")))]]]

\* the tree setup_ui registers for the worker
WorkerTree ==
    [root   |-> "root",
     panels |->
        [name \in {"/", "/build"} |->
            IF name = "/"
            THEN [entries |-> (<<1, 1>> :> ExecuteAndTransition(MOVE_COMMAND_ID, Push("/build")))]
            ELSE [entries |-> (<<1, 5>> :> ExecuteAndTransition("core:cancel", Pop))]]]

\* a second tree: a single panel without actions
BareTree == [root |-> "/", panels |-> [name \in {"/"} |-> [entries |-> <<>>]]]

ControlPanelTrees == {WorkerTree, BareTree}
EntityTypes == {WORKER_ENTITY_TYPE, "core:barracks"}

NoRegistryCall ==
    [op |-> "none", registry |-> "none", key |-> "", result |-> None, logged |-> <<>>]

\* (mutant) a register that keeps the entry already stored under the id
BuildingRegistry_register_keeps_first(m, id, entry) ==
    [map |-> IF id \in DOMAIN m THEN m ELSE HashMap_insert(m, id, entry),
     logged |-> <<"info">>]

\* BuildingRegistry::register: logs at info level, then inserts
BuildingRegistry_register(m, id, entry) ==
    [map |-> HashMap_insert(m, id, entry), logged |-> <<"info">>]

\* (mutant) a register that warns about an occupied entry and leaves it in place
CommandRegistry_register_keeps_first(m, behavior) ==
    IF behavior.command_type \in DOMAIN m
    THEN [map |-> m, logged |-> <<"warn">>]
    ELSE [map |-> HashMap_insert(m, behavior.command_type, behavior), logged |-> <<>>]

\* CommandRegistry::register: the entry is keyed by its command_type; an
\* occupied entry is overwritten after a warning
CommandRegistry_register(m, behavior) ==
    IF behavior.command_type \in DOMAIN m
    THEN [map |-> HashMap_insert(m, behavior.command_type, behavior),
          logged |-> <<"warn">>]
    ELSE [map |-> HashMap_insert(m, behavior.command_type, behavior), logged |-> <<>>]

\* CommandRegistry::get
CommandRegistry_get(m, command_type) == HashMap_get(m, command_type)

\* ControlPanelRegistry::register: an occupied entry is overwritten after a warning
ControlPanelRegistry_register(m, entity_type, panel_tree) ==
    IF entity_type \in DOMAIN m
    THEN [map |-> HashMap_insert(m, entity_type, panel_tree), logged |-> <<"warn">>]
    ELSE [map |-> HashMap_insert(m, entity_type, panel_tree), logged |-> <<>>]

\* ControlPanelRegistry::get
ControlPanelRegistry_get(m, entity_type) == HashMap_get(m, entity_type)

CanRegister == Len(reg_history) < MaxRegistrations

Registered(registry, key, entry, logged) ==
    /\ reg_history' = Append(reg_history, [registry |-> registry, key |-> key, entry |-> entry])
    /\ reg_last' = [NoRegistryCall EXCEPT !.op = "register", !.registry = registry,
                                          !.key = key, !.logged = logged]

Looked(registry, key, result) ==
    /\ reg_last' = [NoRegistryCall EXCEPT !.op = "get", !.registry = registry,
                                          !.key = key, !.result = result]
    /\ UNCHANGED <<buildings, behaviors, panels, reg_history>>

RegisterBuilding(id, entry) ==
    /\ CanRegister
    /\ LET r == BuildingRegistry_register(buildings, id, entry)
       IN buildings' = r.map /\ Registered("buildings", id, entry, r.logged)
    /\ UNCHANGED <<overflow_checks, mapvars, coordvars, uivars, navvars, gamevars, transform, schedvars, behaviors, panels>>

\* registry.buildings.get(id), as player_controls looks the barracks up
LookupBuilding(id) ==
    /\ Looked("buildings", id, HashMap_get(buildings, id))
    /\ UNCHANGED <<overflow_checks, mapvars, coordvars, uivars, navvars, gamevars, transform, schedvars>>

RegisterCommand(behavior) ==
    /\ CanRegister
    /\ LET r == CommandRegistry_register(behaviors, behavior)
       IN behaviors' = r.map
          /\ Registered("behaviors", behavior.command_type, behavior, r.logged)
    /\ UNCHANGED <<overflow_checks, mapvars, coordvars, uivars, navvars, gamevars, transform, schedvars, buildings, panels>>

GetCommand(command_type) ==
    /\ Looked("behaviors", command_type, CommandRegistry_get(behaviors, command_type))
    /\ UNCHANGED <<overflow_checks, mapvars, coordvars, uivars, navvars, gamevars, transform, schedvars>>

RegisterPanelTree(entity_type, panel_tree) ==
    /\ CanRegister
    /\ LET r == ControlPanelRegistry_register(panels, entity_type, panel_tree)
       IN panels' = r.map /\ Registered("panels", entity_type, panel_tree, r.logged)
    /\ UNCHANGED <<overflow_checks, mapvars, coordvars, uivars, navvars, gamevars, transform, schedvars, buildings, behaviors>>

GetPanelTree(entity_type) ==
    /\ Looked("panels", entity_type, ControlPanelRegistry_get(panels, entity_type))
    /\ UNCHANGED <<overflow_checks, mapvars, coordvars, uivars, navvars, gamevars, transform, schedvars>>

----------------------------------------------------------------------------
(* Control panel navigation of one selection.  The source declares the
   transitions and the trees; the state and the executor follow the
   specification's transition semantics. *)

\* panel names a transition may carry: those of the worker tree, its root
\* name, and one no tree defines
PanelNames == {"/", "/build", "root", "/train"}
PanelTransitions == {Push(name) : name \in PanelNames} \cup {Pop}

NoTransition == [transition |-> "none", panel |-> "", result |-> "none"]

\* (mutant) a push that makes any name the current panel
PanelNavigation_push_unchecked(tree, current, back, name) ==
    [current |-> name, back |-> Append(back, current), result |-> "ok"]

\* Push(name): the name is looked up in the panel set of the same tree; an
\* absent name is a navigation error and nothing moves
PanelNavigation_push(tree, current, back, name) ==
    IF HashMap_get(tree.panels, name) = None
    THEN [current |-> current, back |-> back, result |-> "navigation_error"]
    ELSE [current |-> name, back |-> Append(back, current), result |-> "ok"]

\* Pop: back to the panel pushed from; with an empty back-stack the
\* selection is at the root and stays there
PanelNavigation_pop(tree, current, back) ==
    IF back = <<>>
    THEN [current |-> current, back |-> back, result |-> "ok"]
    ELSE [current |-> back[Len(back)], back |-> SubSeq(back, 1, Len(back) - 1),
          result |-> "ok"]

\* an entity is selected: navigation starts at the root of its tree
Select(panel_tree) ==
    /\ nav_tree' = Some(panel_tree)
    /\ nav_current' = panel_tree.root
    /\ nav_back' = <<>>
    /\ nav_last' = NoTransition
    /\ UNCHANGED <<overflow_checks, mapvars, coordvars, uivars, regvars, gamevars, transform, schedvars>>

Transition(transition) ==
    /\ nav_tree # None
    /\ transition # Pop => Len(nav_back) < MaxNavDepth
    /\ LET r == IF transition = Pop
                THEN PanelNavigation_pop(nav_tree.value, nav_current, nav_back)
                ELSE PanelNavigation_push(nav_tree.value, nav_current, nav_back,
                                          transition.panel)
       IN /\ nav_current' = r.current
          /\ nav_back' = r.back
          /\ nav_last' = [transition |-> transition.transition,
                          panel |-> IF transition = Pop THEN "" ELSE transition.panel,
                          result |-> r.result]
    /\ UNCHANGED <<overflow_checks, mapvars, coordvars, uivars, regvars, gamevars, transform, schedvars, nav_tree>>

----------------------------------------------------------------------------
(* The application: Startup systems setup_map and setup_buildings, Update
   systems update_cursor_position and player_controls *)

StartupSystems == {"setup_map", "setup_buildings"}

\* for x in -2..2 { for y in -2..2 { .. } }: the chunk coordinates in loop order
SetupChunks ==
    [k \in 1 .. 16 |-> IVec2_new(((k - 1) \div 4) - 2, ((k - 1) % 4) - 2)]

\* (mutant) the chunk coordinate is not scaled by the chunk size
SetupCell_unscaled(c) == IVec2_new(c.x + 2, c.y + 2)

\* the cell setup_map places in chunk c
SetupCell(c) == IVec2_new(c.x * CHUNK_SIZE_I32 + 2, c.y * CHUNK_SIZE_I32 + 2)

\* setup_map from iteration k on: create the chunk, place one cell in it,
\* assert the placement, write a toast
RECURSIVE setup_map(_, _, _, _)
setup_map(m, written, k, checked) ==
    IF k > Len(SetupChunks)
    THEN [chunks |-> m, toasts |-> written, ret |-> "unit"]
    ELSE LET c == create_chunk(m, SetupChunks[k])
         IN IF c.ret = "panic"
            THEN [chunks |-> c.chunks, toasts |-> written, ret |-> "panic"]
            ELSE LET r == try_place(c.chunks, SetupCell(SetupChunks[k]), Footprint1, checked)
                 IN IF r.ret # "true"
                    THEN [chunks |-> r.chunks, toasts |-> written, ret |-> "panic"]
                    ELSE setup_map(r.chunks,
                                   Append(written, [content |-> "Loaded chunk",
                                                    pos |-> SetupChunks[k]]),
                                   k + 1, checked)

NoControl == [pressed |-> FALSE, global_pos |-> None, success |-> "none"]

\* grid cells the cursor can be over: occupied by setup_map, next to it,
\* free, across a chunk corner, at the edge of the loaded chunks, outside
\* them, and at the edge of the coordinate range
GridPositions ==
    {IVec2_new(2, 2), IVec2_new(1, 1), IVec2_new(3, 3), IVec2_new(4, 3),
     IVec2_new(15, 15), IVec2_new(31, 31), IVec2_new(40, 0), IVec2_new(I32_MAX, 0)}

SetupMap ==
    /\ "setup_map" \notin started
    /\ ~panicked
    /\ started' = started \cup {"setup_map"}
    /\ LET r == setup_map(chunks, <<>>, 1, overflow_checks)
       IN /\ chunks' = r.chunks
          /\ toasts' = r.toasts
          /\ panicked' = (r.ret = "panic")
          /\ chunk_entities' = chunk_entities \cup DOMAIN r.chunks
          /\ placements' = placements \cup
                {Placement(SetupCell(SetupChunks[k]), Footprint1) : k \in 1 .. Len(r.toasts)}
    /\ UNCHANGED <<overflow_checks, last, ncalls, coordvars, uivars, regvars, navvars,
                   cursor, built, control, transform, schedvars>>

SetupBuildings ==
    /\ "setup_buildings" \notin started
    /\ ~panicked
    /\ started' = started \cup {"setup_buildings"}
    /\ LET r == BuildingRegistry_register(buildings, BARRACKS_ID, BarracksEntry)
       IN buildings' = r.map /\ Registered("buildings", BARRACKS_ID, BarracksEntry, r.logged)
    /\ UNCHANGED <<overflow_checks, mapvars, coordvars, uivars, behaviors, panels, navvars,
                   cursor, toasts, built, control, transform, schedvars>>

\* update_cursor_position: the cursor is over grid cell grid_pos, or
\* (position = None) outside the window
UpdateCursorPosition(position) ==
    /\ started = StartupSystems
    /\ ~panicked
    /\ cursor' = IF position = None THEN None ELSE Some(global_to_chunk(position.value))
    /\ UNCHANGED <<overflow_checks, mapvars, coordvars, uivars, regvars, navvars,
                   started, toasts, built, control, transform, schedvars>>

\* player_controls: on B, with the cursor on the grid and the barracks
\* registered, try to place the barracks at the cursor and report by toast
PlayerControls(just_pressed) ==
    /\ started = StartupSystems
    /\ ~panicked
    /\ LET entry == HashMap_get(buildings, BARRACKS_ID)
       IN IF just_pressed /\ cursor # None /\ entry # None
          THEN LET chunk_pos == cursor.value[1]
                   local_pos == cursor.value[2]
                   global_pos == chunk_to_global(chunk_pos, local_pos)
               IN IF overflow_checks /\ chunk_to_global_overflows(chunk_pos, local_pos)
                  THEN /\ panicked' = TRUE
                       /\ control' = [pressed |-> TRUE, global_pos |-> None,
                                      success |-> "panic"]
                       /\ toasts' = <<>>
                       /\ UNCHANGED <<chunks, placements>>
                  ELSE LET r == try_place(chunks, global_pos, entry.value.occlusion_map,
                                          overflow_checks)
                       IN /\ chunks' = r.chunks
                          /\ panicked' = (r.ret = "panic")
                          /\ placements' =
                               IF r.ret = "true"
                               THEN placements \cup
                                       {Placement(global_pos, entry.value.occlusion_map)}
                               ELSE placements
                          /\ control' = [pressed |-> TRUE, global_pos |-> Some(global_pos),
                                         success |-> r.ret]
                          /\ toasts' =
                               IF r.ret = "true"
                               THEN <<[content |-> "Placed Barracks", pos |-> global_pos]>>
                               ELSE IF r.ret = "false"
                               THEN <<[content |-> "Failed to place Barracks",
                                       pos |-> global_pos]>>
                               ELSE <<>>
          ELSE /\ control' = [NoControl EXCEPT !.pressed = just_pressed]
               /\ toasts' = <<>>
               /\ UNCHANGED <<panicked, chunks, placements>>
    /\ UNCHANGED <<overflow_checks, chunk_entities, last, ncalls, coordvars, uivars, regvars,
                   navvars, started, cursor, built, transform, schedvars>>

----------------------------------------------------------------------------
(* Direct calls of the coordinate transforms, on any IVec2 *)

\* chunk coordinates: around the origin and at both ends of what * 16 can hold
ChunkCoords ==
    {-1, 0, 1, MaxChunk, MaxChunk + 1, MinChunk, MinChunk - 1, I32_MAX, I32_MIN}
ChunkArguments == {IVec2_new(x, y) : x \in ChunkCoords, y \in ChunkCoords}
LocalArguments == {IVec2_new(0, 0), IVec2_new(15, 0), IVec2_new(15, 15)}
CellArguments ==
    {IVec2_new(x, y) : x \in {I32_MIN, -17, -1, 0, 16, I32_MAX},
                       y \in {I32_MIN, -1, 0, I32_MAX}}

NoTransform ==
    [fn |-> "none", chunk_pos |-> IVec2_new(0, 0), local_pos |-> IVec2_new(0, 0),
     pos |-> IVec2_new(0, 0), status |-> "none", wrapped |-> FALSE]

\* Map::chunk_to_global(chunk_pos, local_pos): an overflowing * or + panics
\* in a build with overflow checks and wraps in one without
CallChunkToGlobal(chunk_pos, local_pos) ==
    /\ transform.status # "panic"
    /\ transform' =
         IF chunk_to_global_overflows(chunk_pos, local_pos) /\ overflow_checks
         THEN [NoTransform EXCEPT !.fn = "chunk_to_global", !.chunk_pos = chunk_pos,
                                  !.local_pos = local_pos, !.status = "panic"]
         ELSE [NoTransform EXCEPT !.fn = "chunk_to_global", !.chunk_pos = chunk_pos,
                                  !.local_pos = local_pos, !.status = "returned",
                                  !.pos = chunk_to_global(chunk_pos, local_pos),
                                  !.wrapped = chunk_to_global_overflows(chunk_pos, local_pos)]
    /\ UNCHANGED <<overflow_checks, mapvars, coordvars, uivars, regvars, navvars, gamevars, schedvars>>

\* Map::global_to_chunk(pos): div_euclid and rem_euclid by 16 cannot overflow
CallGlobalToChunk(pos) ==
    /\ transform.status # "panic"
    /\ transform' =
         [NoTransform EXCEPT !.fn = "global_to_chunk", !.pos = pos,
                             !.chunk_pos = global_to_chunk(pos)[1],
                             !.local_pos = global_to_chunk(pos)[2],
                             !.status = "returned"]
    /\ UNCHANGED <<overflow_checks, mapvars, coordvars, uivars, regvars, navvars, gamevars, schedvars>>

----------------------------------------------------------------------------
(* The systems under the schedule executor: a system runs from its start to
   its finish in several steps, and systems of one schedule overlap unless
   their declared resource accesses conflict *)

StartupSchedule == {"setup_map", "setup_buildings"}
UpdateSchedule ==
    {"debug_chunk_bounds", "debug_chunk_fields", "player_controls", "update_cursor_position"}
Systems == StartupSchedule \cup UpdateSchedule

\* (mutant) player_controls declares the Map as Res<Map>
SystemAccess_shared_map(system) ==
    IF system = "setup_map"
    THEN [reads |-> {}, writes |-> {"Map", "Messages<ToastMessage>"}]
    ELSE IF system = "setup_buildings"
    THEN [reads |-> {},
          writes |-> {"BuildingRegistry", "Assets<Mesh>", "Assets<ColorMaterial>"}]
    ELSE IF system = "update_cursor_position"
    THEN [reads |-> {}, writes |-> {"MouseCursor"}]
    ELSE IF system = "player_controls"
    THEN [reads |-> {"ButtonInput<KeyCode>", "BuildingRegistry", "MouseCursor", "Map"},
          writes |-> {"Messages<ToastMessage>"}]
    ELSE IF system = "debug_chunk_fields"
    THEN [reads |-> {"Map", "MouseCursor"}, writes |-> {}]
    ELSE [reads |-> {}, writes |-> {}]

\* the resources a system's parameters declare: Res<T> reads, ResMut<T> and
\* MessageWriter<T> write
SystemAccess(system) ==
    IF system = "setup_map"
    THEN [reads |-> {}, writes |-> {"Map", "Messages<ToastMessage>"}]
    ELSE IF system = "setup_buildings"
    THEN [reads |-> {},
          writes |-> {"BuildingRegistry", "Assets<Mesh>", "Assets<ColorMaterial>"}]
    ELSE IF system = "update_cursor_position"
    THEN [reads |-> {}, writes |-> {"MouseCursor"}]
    ELSE IF system = "player_controls"
    THEN [reads |-> {"ButtonInput<KeyCode>", "BuildingRegistry", "MouseCursor"},
          writes |-> {"Map", "Messages<ToastMessage>"}]
    ELSE IF system = "debug_chunk_fields"
    THEN [reads |-> {"Map", "MouseCursor"}, writes |-> {}]
    ELSE [reads |-> {}, writes |-> {}]

\* two systems conflict when one writes a resource the other reads or writes
Conflicts(a, b) ==
    \/ SystemAccess(a).writes \cap (SystemAccess(b).reads \cup SystemAccess(b).writes) # {}
    \/ SystemAccess(b).writes \cap SystemAccess(a).reads # {}

Active(system) == sys_pc[system] \notin {"waiting", "done"}
ScheduleOf(p) == IF p = "Startup" THEN StartupSchedule ELSE UpdateSchedule

InitSchedule ==
    /\ phase = "Startup"
    /\ sys_pc = [system \in Systems |-> "waiting"]
    /\ pending = None

\* the executor starts a system of the current schedule that conflicts with
\* no system in progress
StartSystem(system) ==
    /\ ~panicked
    /\ system \in ScheduleOf(phase)
    /\ sys_pc[system] = "waiting"
    /\ \A other \in Systems \ {system} : Active(other) => ~Conflicts(system, other)
    /\ sys_pc' = [sys_pc EXCEPT ![system] = "started"]
    /\ UNCHANGED <<overflow_checks, mapvars, coordvars, uivars, regvars, navvars, gamevars,
                   transform, phase, pending>>

\* the body of setup_map
RunSetupMap ==
    /\ ~panicked
    /\ sys_pc["setup_map"] = "started"
    /\ sys_pc' = [sys_pc EXCEPT !["setup_map"] = "ran"]
    /\ LET r == setup_map(chunks, <<>>, 1, overflow_checks)
       IN /\ chunks' = r.chunks
          /\ toasts' = r.toasts
          /\ panicked' = (r.ret = "panic")
          /\ chunk_entities' = chunk_entities \cup DOMAIN r.chunks
          /\ placements' = placements \cup
                {Placement(SetupCell(SetupChunks[k]), Footprint1) : k \in 1 .. Len(r.toasts)}
    /\ started' = started \cup {"setup_map"}
    /\ UNCHANGED <<overflow_checks, last, ncalls, coordvars, uivars, regvars, navvars,
                   cursor, built, control, transform, phase, pending>>

\* the body of setup_buildings
RunSetupBuildings ==
    /\ ~panicked
    /\ sys_pc["setup_buildings"] = "started"
    /\ sys_pc' = [sys_pc EXCEPT !["setup_buildings"] = "ran"]
    /\ LET r == BuildingRegistry_register(buildings, BARRACKS_ID, BarracksEntry)
       IN buildings' = r.map /\ Registered("buildings", BARRACKS_ID, BarracksEntry, r.logged)
    /\ started' = started \cup {"setup_buildings"}
    /\ UNCHANGED <<overflow_checks, mapvars, coordvars, uivars, behaviors, panels, navvars,
                   cursor, toasts, built, control, transform, phase, pending>>

\* the body of update_cursor_position
MoveCursor(position) ==
    /\ ~panicked
    /\ sys_pc["update_cursor_position"] = "started"
    /\ sys_pc' = [sys_pc EXCEPT !["update_cursor_position"] = "ran"]
    /\ cursor' = IF position = None THEN None ELSE Some(global_to_chunk(position.value))
    /\ UNCHANGED <<overflow_checks, mapvars, coordvars, uivars, regvars, navvars,
                   started, toasts, built, control, transform, phase, pending>>

\* the bodies of debug_chunk_bounds and debug_chunk_fields: they draw, and
\* debug_chunk_fields reads is_occupied of every cell of every chunk entity
Draw(system) ==
    /\ ~panicked
    /\ system \in {"debug_chunk_bounds", "debug_chunk_fields"}
    /\ sys_pc[system] = "started"
    /\ sys_pc' = [sys_pc EXCEPT ![system] = "ran"]
    /\ UNCHANGED <<overflow_checks, mapvars, coordvars, uivars, regvars, navvars, gamevars,
                   transform, phase, pending>>

\* player_controls up to the end of the check phase of its try_place
CheckPlacement(just_pressed) ==
    /\ ~panicked
    /\ sys_pc["player_controls"] = "started"
    /\ LET entry == HashMap_get(buildings, BARRACKS_ID)
       IN IF just_pressed /\ cursor # None /\ entry # None
          THEN LET chunk_pos == cursor.value[1]
                   local_pos == cursor.value[2]
                   global_pos == chunk_to_global(chunk_pos, local_pos)
                   c == check_occlusion(chunks, global_pos, entry.value.occlusion_map, 1,
                                        overflow_checks)
               IN IF (overflow_checks /\ chunk_to_global_overflows(chunk_pos, local_pos))
                     \/ c = "panic"
                  THEN /\ panicked' = TRUE
                       /\ control' = [pressed |-> TRUE, global_pos |-> None,
                                      success |-> "panic"]
                       /\ toasts' = <<>>
                       /\ pending' = None
                       /\ sys_pc' = sys_pc
                  ELSE IF c = "pass"
                  THEN /\ pending' = Some(global_pos)
                       /\ sys_pc' = [sys_pc EXCEPT !["player_controls"] = "checked"]
                       /\ UNCHANGED <<panicked, control, toasts>>
                  ELSE /\ control' = [pressed |-> TRUE, global_pos |-> Some(global_pos),
                                      success |-> "false"]
                       /\ toasts' = <<[content |-> "Failed to place Barracks",
                                       pos |-> global_pos]>>
                       /\ pending' = None
                       /\ sys_pc' = [sys_pc EXCEPT !["player_controls"] = "ran"]
                       /\ UNCHANGED panicked
          ELSE /\ control' = [NoControl EXCEPT !.pressed = just_pressed]
               /\ toasts' = <<>>
               /\ pending' = None
               /\ sys_pc' = [sys_pc EXCEPT !["player_controls"] = "ran"]
               /\ UNCHANGED panicked
    /\ UNCHANGED <<overflow_checks, chunks, chunk_entities, last, ncalls, placements,
                   coordvars, uivars, regvars, navvars, started, cursor, built, transform,
                   phase>>

\* player_controls from the commit phase of its try_place on
CommitPlacement ==
    /\ ~panicked
    /\ sys_pc["player_controls"] = "checked"
    /\ LET r == place_tiles(chunks, pending.value, buildings[BARRACKS_ID].occlusion_map, 1,
                            overflow_checks)
       IN /\ chunks' = r.chunks
          /\ panicked' = (r.ret = "panic")
          /\ control' = [pressed |-> TRUE, global_pos |-> pending, success |-> r.ret]
          /\ placements' =
               IF r.ret = "true"
               THEN placements \cup
                       {Placement(pending.value, buildings[BARRACKS_ID].occlusion_map)}
               ELSE placements
          /\ toasts' = IF r.ret = "true"
                       THEN <<[content |-> "Placed Barracks", pos |-> pending.value]>>
                       ELSE <<>>
    /\ pending' = None
    /\ sys_pc' = [sys_pc EXCEPT !["player_controls"] = "ran"]
    /\ UNCHANGED <<overflow_checks, chunk_entities, last, ncalls, coordvars, uivars,
                   regvars, navvars, started, cursor, built, transform, phase>>

\* a system returns and gives its resources back
FinishSystem(system) ==
    /\ ~panicked
    /\ sys_pc[system] = "ran"
    /\ sys_pc' = [sys_pc EXCEPT ![system] = "done"]
    /\ UNCHANGED <<overflow_checks, mapvars, coordvars, uivars, regvars, navvars, gamevars,
                   transform, phase, pending>>

\* every system of the schedule has finished: the next frame runs Update
NextFrame ==
    /\ ~panicked
    /\ \A system \in ScheduleOf(phase) : sys_pc[system] = "done"
    /\ phase' = "Update"
    /\ sys_pc' = [system \in Systems |->
                    IF system \in UpdateSchedule THEN "waiting" ELSE sys_pc[system]]
    /\ UNCHANGED <<overflow_checks, mapvars, coordvars, uivars, regvars, navvars, gamevars,
                   transform, pending>>

----------------------------------------------------------------------------
(* setup_ui and the use of what it registered *)

\* the dispatcher setup_ui builds with impl_command_dispatcher!
move_dispatcher == [catches |-> {"core:move"}]

\* the command entry setup_ui registers
MoveCommandEntry == [command_type |-> "core:move", input_mode |-> "SelectTargetedPoint"]

\* setup_ui: registers the move command, the worker's panel tree and the
\* move dispatcher
SetupUi ==
    /\ "setup_ui" \notin started
    /\ started' = started \cup {"setup_ui"}
    /\ LET c == CommandRegistry_register(behaviors, MoveCommandEntry)
           p == ControlPanelRegistry_register(panels, WORKER_ENTITY_TYPE, WorkerTree)
       IN /\ behaviors' = c.map
          /\ panels' = p.map
          /\ reg_history' = reg_history \o
                <<[registry |-> "behaviors", key |-> MoveCommandEntry.command_type,
                   entry |-> MoveCommandEntry],
                  [registry |-> "panels", key |-> WORKER_ENTITY_TYPE, entry |-> WorkerTree]>>
          /\ reg_last' = [NoRegistryCall EXCEPT !.op = "register", !.registry = "panels",
                                                !.key = WORKER_ENTITY_TYPE,
                                                !.logged = c.logged \o p.logged]
    /\ dispatchers' = register_dispatcher(dispatchers, move_dispatcher)
    /\ ui_pc' = "registered"
    /\ UNCHANGED <<overflow_checks, mapvars, coordvars, event, invoked, buildings, navvars,
                   cursor, toasts, built, control, transform, schedvars>>

\* an entity of a registered type is selected
SelectEntity(entity_type) ==
    /\ "setup_ui" \in started
    /\ entity_type \in DOMAIN panels
    /\ Select(panels[entity_type])

\* a command event is pushed through the pipeline setup_ui filled
IssueCommand(command_event) == "setup_ui" \in started /\ Dispatch(command_event)

\* lookups in the registries setup_ui filled
LookupCommand(command_type) == "setup_ui" \in started /\ GetCommand(command_type)
LookupPanelTree(entity_type) == "setup_ui" \in started /\ GetPanelTree(entity_type)

\* the selection navigates its tree
Navigate(transition) == "setup_ui" \in started /\ Transition(transition)

----------------------------------------------------------------------------
(* Specifications *)

InitCoord ==
    /\ cell = IVec2_new(0, 0)
    /\ split = <<IVec2_new(0, 0), IVec2_new(0, 0)>>
    /\ joined = IVec2_new(0, 0)
    /\ coord_pc = "start"

InitUi ==
    /\ dispatchers = <<>>
    /\ event = [command_type |-> "", payload |-> "None"]
    /\ invoked = <<>>
    /\ ui_pc = "idle"

\* Map::default(): no chunks
InitMap ==
    /\ panicked = FALSE
    /\ chunks = <<>>
    /\ chunk_entities = {}
    /\ last = NoCall
    /\ ncalls = 0
    /\ placements = {}

\* BuildingRegistry, CommandRegistry and ControlPanelRegistry (derive Default): empty
InitRegistries ==
    /\ buildings = <<>>
    /\ behaviors = <<>>
    /\ panels = <<>>
    /\ reg_history = <<>>
    /\ reg_last = NoRegistryCall

\* no entity selected
InitNav ==
    /\ nav_tree = None
    /\ nav_current = ""
    /\ nav_back = <<>>
    /\ nav_last = NoTransition

\* App::new(): default resources, no system has run
InitGame ==
    /\ started = {}
    /\ cursor = None
    /\ toasts = <<>>
    /\ built = <<>>
    /\ control = NoControl

InitOther ==
    /\ InitRegistries
    /\ InitNav
    /\ InitGame
    /\ transform = NoTransform
    /\ InitSchedule

Init ==
    /\ overflow_checks \in BOOLEAN
    /\ InitMap
    /\ InitCoord
    /\ InitUi
    /\ InitOther

Next ==
    \/ \E pos \in ChunkPositions : CreateChunk(pos)
    \/ \E pos \in AnchorCells, occlusion_map \in OcclusionMaps : TryPlace(pos, occlusion_map)
    \/ \E chunk_pos \in ChunkPositions, local_pos \in LocalPositions :
          IsOccupied(chunk_pos, local_pos)

\* the Map under any sequence of create_chunk, try_place and is_occupied calls
Spec == Init /\ [][Next]_vars

\* the coordinate transform on a cell drawn from Cells
InitCells ==
    /\ overflow_checks \in BOOLEAN
    /\ InitMap
    /\ InitUi
    /\ InitOther
    /\ cell \in Cells
    /\ split = <<IVec2_new(0, 0), IVec2_new(0, 0)>>
    /\ joined = IVec2_new(0, 0)
    /\ coord_pc = "start"

NextCoord == GlobalToChunk \/ ChunkToGlobal

SpecCoord == InitCells /\ [][NextCoord]_vars

\* the dispatcher pipeline under any sequence of register_dispatcher and dispatch calls
NextUi ==
    \/ \E dispatcher \in Dispatchers : RegisterDispatcher(dispatcher)
    \/ \E command_event \in CommandEvents : Dispatch(command_event)

SpecUi == Init /\ [][NextUi]_vars

\* the three registries under any sequence of register and get calls
NextRegistry ==
    \/ \E id \in BuildingIds, entry \in BuildingEntries : RegisterBuilding(id, entry)
    \/ \E id \in BuildingIds : LookupBuilding(id)
    \/ \E behavior \in CommandEntries : RegisterCommand(behavior)
    \/ \E command_type \in CommandTypes : GetCommand(command_type)
    \/ \E entity_type \in EntityTypes, panel_tree \in ControlPanelTrees :
          RegisterPanelTree(entity_type, panel_tree)
    \/ \E entity_type \in EntityTypes : GetPanelTree(entity_type)

SpecRegistry == Init /\ [][NextRegistry]_vars

\* selections navigating the registered trees
NextNav ==
    \/ \E panel_tree \in ControlPanelTrees : Select(panel_tree)
    \/ \E transition \in PanelTransitions : Transition(transition)

SpecNav == Init /\ [][NextNav]_vars

\* the application: both Startup systems in either order, then the Update systems
NextGame ==
    \/ SetupMap
    \/ SetupBuildings
    \/ \E position \in {None} \cup {Some(g) : g \in GridPositions} :
          UpdateCursorPosition(position)
    \/ \E just_pressed \in BOOLEAN : PlayerControls(just_pressed)

SpecGame == Init /\ [][NextGame]_vars

\* the coordinate transforms called on any arguments of their type
NextTransform ==
    \/ \E chunk_pos \in ChunkArguments, local_pos \in LocalArguments :
          CallChunkToGlobal(chunk_pos, local_pos)
    \/ \E pos \in CellArguments : CallGlobalToChunk(pos)

SpecTransform == Init /\ [][NextTransform]_vars

\* the application's systems as the executor runs them, frame after frame
NextSchedule ==
    \/ \E system \in Systems : StartSystem(system)
    \/ RunSetupMap
    \/ RunSetupBuildings
    \/ \E position \in {None} \cup {Some(g) : g \in GridPositions} : MoveCursor(position)
    \/ \E system \in Systems : Draw(system)
    \/ \E just_pressed \in BOOLEAN : CheckPlacement(just_pressed)
    \/ CommitPlacement
    \/ \E system \in Systems : FinishSystem(system)
    \/ NextFrame

SpecSchedule == Init /\ [][NextSchedule]_vars

\* setup_ui, then commands, lookups and panel navigation on what it registered
NextSetupUi ==
    \/ SetupUi
    \/ \E command_event \in CommandEvents : IssueCommand(command_event)
    \/ \E command_type \in CommandTypes : LookupCommand(command_type)
    \/ \E entity_type \in EntityTypes : LookupPanelTree(entity_type)
    \/ \E entity_type \in EntityTypes : SelectEntity(entity_type)
    \/ \E transition \in PanelTransitions : Navigate(transition)

SpecSetupUi == Init /\ [][NextSetupUi]_vars

\* the footprints that list no offset twice
DuplicateFreeMaps == {Footprint1, Footprint3, FootprintBarracks}

\* the Map under create_chunk and try_place calls with duplicate-free footprints
NextBooking ==
    \/ \E pos \in ChunkPositions : CreateChunk(pos)
    \/ \E pos \in AnchorCells, occlusion_map \in DuplicateFreeMaps :
          TryPlace(pos, occlusion_map)

SpecBooking == Init /\ [][NextBooking]_vars

----------------------------------------------------------------------------
(* Vocabulary of the properties *)

\* the step is a call of Map operation op; last' holds its arguments and outcome
Called(op) == ncalls' = ncalls + 1 /\ last'.op = op

\* every anchor + offset of the footprint is a cell (an i32 pair)
FootprintInGrid(pos, occlusion_map) ==
    \A i \in 1 .. Len(occlusion_map) :
        /\ ~add_overflows(pos.x, occlusion_map[i].x)
        /\ ~add_overflows(pos.y, occlusion_map[i].y)

\* the i-th cell of a footprint that is in the grid
FootprintCell(pos, occlusion_map, i) ==
    [x |-> pos.x + occlusion_map[i].x, y |-> pos.y + occlusion_map[i].y]

\* floored division and remainder by the chunk size
ChunkOf(c) == [x |-> c.x \div CHUNK_SIZE, y |-> c.y \div CHUNK_SIZE]
LocalOf(c) == [x |-> c.x % CHUNK_SIZE, y |-> c.y % CHUNK_SIZE]

ChunkExists(m, c) == ChunkOf(c) \in DOMAIN m
TileSet(m, c) == ChunkExists(m, c) /\ m[ChunkOf(c)].tiles[LocalOf(c).x][LocalOf(c).y]
TileFree(m, c) == ChunkExists(m, c) /\ ~m[ChunkOf(c)].tiles[LocalOf(c).x][LocalOf(c).y]

PairwiseDistinct(occlusion_map) ==
    \A i, j \in 1 .. Len(occlusion_map) : i # j => occlusion_map[i] # occlusion_map[j]

----------------------------------------------------------------------------
(* Properties of the Map *)

\* C1  Placement atomicity: a try_place call that returns false leaves the
\* set of chunks and every tile of every chunk as they were before the call.
PlacementAtomicity ==
    [][(Called("try_place") /\ last'.ret = "false") => chunks' = chunks]_vars

\* C1 case: the three-cell footprint has just been refused because its last
\* cell is taken, while its first two cells are (still) free
PlacementAtomicityWitness ==
    /\ last.op = "try_place" /\ last.ret = "false"
    /\ last.occlusion_map = Footprint3
    /\ FootprintInGrid(last.pos, last.occlusion_map)
    /\ TileFree(chunks, FootprintCell(last.pos, last.occlusion_map, 1))
    /\ TileFree(chunks, FootprintCell(last.pos, last.occlusion_map, 2))
    /\ TileSet(chunks, FootprintCell(last.pos, last.occlusion_map, 3))

\* C2  Placement success: when the offsets are pairwise distinct and every
\* cell anchor + offset lies in an existing chunk and is free, try_place
\* returns true and is_occupied is true for every cell of the footprint afterwards.
PlacementSuccess ==
    [][(/\ Called("try_place")
        /\ PairwiseDistinct(last'.occlusion_map)
        /\ FootprintInGrid(last'.pos, last'.occlusion_map)
        /\ \A i \in 1 .. Len(last'.occlusion_map) :
              TileFree(chunks, FootprintCell(last'.pos, last'.occlusion_map, i)))
       => (/\ last'.ret = "true"
           /\ \A i \in 1 .. Len(last'.occlusion_map) :
                LET c == FootprintCell(last'.pos, last'.occlusion_map, i)
                IN /\ ChunkExists(chunks', c)
                   /\ is_occupied(chunks', ChunkOf(c), LocalOf(c)) = "true")]_vars

\* C2 case: a footprint of several distinct cells lying in more than one
\* chunk has just been placed
PlacementSuccessWitness ==
    /\ last.op = "try_place" /\ last.ret = "true"
    /\ Len(last.occlusion_map) >= 3
    /\ PairwiseDistinct(last.occlusion_map)
    /\ FootprintInGrid(last.pos, last.occlusion_map)
    /\ Cardinality({ChunkOf(FootprintCell(last.pos, last.occlusion_map, i)) :
                        i \in 1 .. Len(last.occlusion_map)}) >= 2
    /\ \A i \in 1 .. Len(last.occlusion_map) :
          TileSet(chunks, FootprintCell(last.pos, last.occlusion_map, i))

\* C3  Missing-chunk placement failure: when a cell of the footprint lies in
\* a chunk that was never created, try_place returns false and changes no
\* chunk, also when the cells listed before it lie in existing chunks and
\* are free.  (A cell is an i32 pair: the offsets up to the missing-chunk
\* cell must give cells; an anchor + offset beyond the i32 range is none.)
MissingChunkFails ==
    [][(/\ Called("try_place")
        /\ \E i \in 1 .. Len(last'.occlusion_map) :
              /\ FootprintInGrid(last'.pos, SubSeq(last'.occlusion_map, 1, i))
              /\ ~ChunkExists(chunks, FootprintCell(last'.pos, last'.occlusion_map, i)))
       => (last'.ret = "false" /\ chunks' = chunks)]_vars

\* C3 case: a footprint has just been refused whose first cell is free in an
\* existing chunk and whose second cell lies in a chunk never created
MissingChunkFailsWitness ==
    /\ last.op = "try_place" /\ last.ret = "false"
    /\ Len(last.occlusion_map) >= 2
    /\ FootprintInGrid(last.pos, last.occlusion_map)
    /\ TileFree(chunks, FootprintCell(last.pos, last.occlusion_map, 1))
    /\ ~ChunkExists(chunks, FootprintCell(last.pos, last.occlusion_map, 2))

\* C4  Fail-closed occupancy query: is_occupied returns true when there is no
\* chunk at the chunk coordinate, returns the stored flag of the local cell
\* when the chunk exists, so returns false only for a cleared flag of an
\* existing chunk; the call leaves the map as it was.
FailClosedQuery ==
    [][Called("is_occupied") =>
        (/\ chunks' = chunks
         /\ last'.pos \notin DOMAIN chunks => last'.ret = "true"
         /\ (last'.pos \in DOMAIN chunks /\ index_in_bounds(last'.local_pos)) =>
               last'.ret =
                 (IF chunks[last'.pos].tiles[last'.local_pos.x][last'.local_pos.y]
                  THEN "true" ELSE "false")
         /\ last'.ret = "false" =>
               (/\ last'.pos \in DOMAIN chunks
                /\ index_in_bounds(last'.local_pos)
                /\ ~chunks[last'.pos].tiles[last'.local_pos.x][last'.local_pos.y]))]_vars

\* C4 case: a map with chunks has just been asked about a cell of a chunk
\* that does not exist, and answered true
FailClosedQueryWitness ==
    /\ last.op = "is_occupied" /\ last.ret = "true"
    /\ last.pos \notin DOMAIN chunks
    /\ DOMAIN chunks # {}

\* C5  create_chunk on a coordinate without a chunk puts an empty chunk
\* there: is_occupied is false for all 16x16 local cells of it, and every
\* other chunk is as it was.
CreateChunkEmpty ==
    [][(Called("create_chunk") /\ last'.pos \notin DOMAIN chunks) =>
        (/\ last'.pos \in DOMAIN chunks'
         /\ \A x \in LocalAxis, y \in LocalAxis :
               is_occupied(chunks', last'.pos, IVec2_new(x, y)) = "false"
         /\ DOMAIN chunks' = (DOMAIN chunks) \cup {last'.pos}
         /\ \A p \in DOMAIN chunks : chunks'[p] = chunks[p])]_vars

\* C5 case: a chunk has just been created next to a chunk that holds a set tile
CreateChunkEmptyWitness ==
    /\ last.op = "create_chunk" /\ last.ret = "unit"
    /\ \E p \in DOMAIN chunks :
          /\ p # last.pos
          /\ \E x \in LocalAxis, y \in LocalAxis : chunks[p].tiles[x][y]

\* C6  create_chunk fails fatally exactly when a chunk already exists at the
\* coordinate: it panics then, nothing is called after the panic, and it
\* returns normally whenever no chunk exists there.
CreateChunkFatal ==
    [][/\ ~panicked
       /\ Called("create_chunk") =>
            /\ (last'.pos \in DOMAIN chunks) <=> (last'.ret = "panic")
            /\ (last'.pos \notin DOMAIN chunks) <=> (last'.ret = "unit")
            /\ panicked' <=> (last'.ret = "panic")]_vars

\* C6 case: create_chunk has just been called on a coordinate that had a chunk
CreateChunkFatalWitness ==
    /\ last.op = "create_chunk" /\ last.ret = "panic" /\ panicked
    /\ last.pos \in DOMAIN chunks

\* C7  Placement permanence: a tile that is set stays set in every later
\* state, whatever create_chunk, try_place and is_occupied calls follow.
PlacementPermanence ==
    [][\A p \in DOMAIN chunks : \A x \in LocalAxis, y \in LocalAxis :
          chunks[p].tiles[x][y] =>
              (p \in DOMAIN chunks' /\ chunks'[p].tiles[x][y])]_vars

----------------------------------------------------------------------------
(* Properties of the coordinate transform *)

\* C8  Coordinate round trip: chunk_to_global applied to the pair that
\* global_to_chunk returns for a cell gives the cell back (and does not panic).
CoordinateRoundTrip ==
    coord_pc \in {"joined", "panic"} => (coord_pc = "joined" /\ joined = cell)

\* C8 case: a cell with a negative coordinate that is no multiple of 16 has
\* been split and joined
CoordinateRoundTripWitness ==
    /\ coord_pc = "joined"
    /\ cell.x < 0 /\ cell.x % CHUNK_SIZE # 0
    /\ cell.y > CHUNK_SIZE

\* C9  Floored decomposition: global_to_chunk(C) is the pair (chunk, local)
\* with both local axes in [0,16) and C = chunk*16 + local, negative
\* coordinates included; cell (-1,-1) gives chunk (-1,-1), local (15,15).
FlooredDecomposition ==
    coord_pc # "start" =>
        /\ split[2].x \in LocalAxis /\ split[2].y \in LocalAxis
        /\ split[1].x \in MinChunk .. MaxChunk
        /\ split[1].y \in MinChunk .. MaxChunk
        /\ split[1].x * CHUNK_SIZE + split[2].x = cell.x
        /\ split[1].y * CHUNK_SIZE + split[2].y = cell.y
        /\ cell = IVec2_new(-1, -1) =>
              split = <<IVec2_new(-1, -1), IVec2_new(15, 15)>>

\* C9 case: cell (-1,-1) has been split
FlooredDecompositionWitness ==
    coord_pc = "split" /\ cell = IVec2_new(-1, -1)

----------------------------------------------------------------------------
(* Properties of the dispatcher pipeline *)

\* the dispatch_command calls of the last dispatch that went to dispatcher i
CallsTo(i) == {k \in 1 .. Len(invoked) : invoked[k].dispatcher = i}

\* C10  Dispatcher fan-out: dispatch(event) calls dispatch_command exactly
\* once, with the event, on every registered dispatcher that catches the
\* event's command type and on no other; when none catches it, nothing is called.
DispatcherFanOut ==
    ui_pc = "dispatched" =>
        /\ \A i \in 1 .. Len(dispatchers) :
              Cardinality(CallsTo(i)) =
                 (IF event.command_type \in dispatchers[i].catches THEN 1 ELSE 0)
        /\ \A k \in 1 .. Len(invoked) :
              /\ invoked[k].dispatcher \in 1 .. Len(dispatchers)
              /\ invoked[k].event = event
        /\ (\A i \in 1 .. Len(dispatchers) :
               event.command_type \notin dispatchers[i].catches) => invoked = <<>>

\* C10 case: "core:move" has been dispatched to a pipeline of two dispatchers
\* that catch it and one that catches only "core:attack"
DispatcherFanOutWitness ==
    /\ ui_pc = "dispatched"
    /\ event.command_type = "core:move"
    /\ Len(dispatchers) = 3
    /\ Cardinality({i \in 1 .. 3 : dispatchers[i].catches = {"core:move"}}) = 2
    /\ Cardinality({i \in 1 .. 3 : dispatchers[i].catches = {"core:attack"}}) = 1
    /\ Len(invoked) = 2

\* C11  Dispatch ordering: register_dispatcher puts the dispatcher at the
\* end of the pipeline and leaves the earlier entries as they were, and
\* dispatch calls the dispatchers that catch the event in the order in which
\* they were registered.
DispatchOrdering ==
    [][/\ dispatchers' # dispatchers =>
            /\ Len(dispatchers') = Len(dispatchers) + 1
            /\ SubSeq(dispatchers', 1, Len(dispatchers)) = dispatchers
       /\ ui_pc' = "dispatched" =>
            /\ \A k, l \in 1 .. Len(invoked') :
                  k < l => invoked'[k].dispatcher < invoked'[l].dispatcher
            /\ dispatchers' = dispatchers]_vars

\* C11 case: an event has been dispatched to three different dispatchers, of
\* which the first and the last registered catch it
DispatchOrderingWitness ==
    /\ ui_pc = "dispatched"
    /\ Len(dispatchers) = 3
    /\ dispatchers[1] # dispatchers[2] /\ dispatchers[2] # dispatchers[3]
    /\ dispatchers[1] # dispatchers[3]
    /\ Len(invoked) = 2
    /\ invoked[1].dispatcher = 1 /\ invoked[2].dispatcher = 3


\* the register calls made so far on one registry under one key
RegistrationsOf(registry, key) ==
    {i \in 1 .. Len(reg_history) :
        reg_history[i].registry = registry /\ reg_history[i].key = key}

\* the entry of the most recent register call under the key, None without one
LatestRegistered(registry, key) ==
    LET calls == RegistrationsOf(registry, key)
    IN IF calls = {} THEN None
       ELSE Some(reg_history[CHOOSE i \in calls : \A j \in calls : j <= i].entry)

\* C12  Building registry overwrite: after any sequence of register calls, the
\* lookup of an identifier yields the entry most recently registered under
\* it and reports not-found for an identifier never registered; hence a
\* register under one identifier leaves the entries of the others as they were.
BuildingRegistryOverwrite ==
    /\ \A id \in BuildingIds :
          HashMap_get(buildings, id) = LatestRegistered("buildings", id)
    /\ (reg_last.op = "get" /\ reg_last.registry = "buildings") =>
          reg_last.result = LatestRegistered("buildings", reg_last.key)

BuildingRegistryOverwriteWitness ==
    /\ reg_last.op = "get" /\ reg_last.registry = "buildings"
    /\ reg_last.key = BARRACKS_ID
    /\ Len(reg_history) = 3
    /\ \A i \in 1 .. 3 : reg_history[i].registry = "buildings"
    /\ reg_history[1].key = BARRACKS_ID /\ reg_history[1].entry = BarracksEntry
    /\ reg_history[2].key = "core:tower" /\ reg_history[2].entry = TowerEntry
    /\ reg_history[3].key = BARRACKS_ID /\ reg_history[3].entry = TowerEntry
    /\ reg_last.result = Some(TowerEntry)
    /\ HashMap_get(buildings, "core:tower") = Some(TowerEntry)

\* C13  Registry last-write-wins: in the command registry and the control
\* panel registry the value stored under a key is the most recently
\* registered one and nothing is ever removed; get(key) is None exactly when
\* the key was never registered.
RegistryLastWriteWins ==
    /\ \A command_type \in CommandTypes :
          /\ CommandRegistry_get(behaviors, command_type)
                = LatestRegistered("behaviors", command_type)
          /\ CommandRegistry_get(behaviors, command_type) = None
                <=> RegistrationsOf("behaviors", command_type) = {}
    /\ \A entity_type \in EntityTypes :
          /\ ControlPanelRegistry_get(panels, entity_type)
                = LatestRegistered("panels", entity_type)
          /\ ControlPanelRegistry_get(panels, entity_type) = None
                <=> RegistrationsOf("panels", entity_type) = {}
    /\ (reg_last.op = "get" /\ reg_last.registry \in {"behaviors", "panels"}) =>
          reg_last.result = LatestRegistered(reg_last.registry, reg_last.key)

RegistryLastWriteWinsWitness ==
    /\ reg_last.op = "get" /\ reg_last.registry = "behaviors"
    /\ reg_last.key = MOVE_COMMAND_ID
    /\ Len(reg_history) = 3
    /\ reg_history[1].registry = "behaviors" /\ reg_history[1].key = MOVE_COMMAND_ID
    /\ reg_history[2].registry = "behaviors" /\ reg_history[2].key = MOVE_COMMAND_ID
    /\ reg_history[1].entry.input_mode = "SelectTargetedPoint"
    /\ reg_history[2].entry.input_mode = "Immediate"
    /\ reg_history[3].registry = "panels" /\ reg_history[3].key = WORKER_ENTITY_TYPE
    /\ reg_last.result = Some(reg_history[2].entry)
    /\ CommandRegistry_get(behaviors, "core:cancel") = None
    /\ ControlPanelRegistry_get(panels, WORKER_ENTITY_TYPE) = Some(WorkerTree)


\* the step executes the transition Pop
PopStep == nav_last'.transition = "Pop" /\ nav_tree' = nav_tree

PushUndefinedPanel ==
    [][(nav_tree # None /\ nav_tree' = nav_tree) =>
         /\ (nav_last'.transition = "Push"
               /\ nav_last'.panel \notin DOMAIN nav_tree.value.panels) =>
               /\ nav_last'.result = "navigation_error"
               /\ nav_last'.result \notin {"ok", "none"}
               /\ nav_current' = nav_current
               /\ nav_back' = nav_back
         /\ nav_current' # nav_current =>
               nav_current' \in DOMAIN nav_tree.value.panels \cup {nav_tree.value.root}]_vars

PushUndefinedPanelWitness ==
    /\ nav_tree = Some(WorkerTree)
    /\ nav_current = "/build"
    /\ nav_back = <<"root">>
    /\ nav_last = [transition |-> "Push", panel |-> "root", result |-> "navigation_error"]


\* the step is a player_controls run whose try_place returned true
PlacedByPlayer ==
    /\ started' = started
    /\ chunks' # chunks
    /\ control'.success = "true"

\* C16  Construction callback on success: a player_controls run whose
\* try_place returns true invokes the entry's builder exactly once, with the
\* entry and the anchor cell; any other step invokes no builder.
ConstructionCallback ==
    [][IF PlacedByPlayer
       THEN built' = Append(built, [builder  |-> BarracksEntry.builder,
                                    entry    |-> BarracksEntry,
                                    position |-> control'.global_pos.value])
       ELSE built' = built]_vars


\* C17  Totality of the coordinate transform: every call of global_to_chunk
\* and chunk_to_global on i32 arguments returns, with no overflow, panic or
\* wrap-around, and chunk_to_global(chunk, local) is the cell chunk*16 + local
\* exactly (the cell whose floored decomposition is (chunk, local)).
TransformTotality ==
    /\ transform.fn # "none" =>
          (transform.status = "returned" /\ ~transform.wrapped)
    /\ transform.fn = "chunk_to_global" =>
          global_to_chunk(transform.pos) = <<transform.chunk_pos, transform.local_pos>>


\* the step is a try_place call with a footprint that lists an offset more
\* than once, all of whose cells lie in existing chunks and are free
PlacesDuplicateOffsets ==
    /\ Called("try_place")
    /\ ~PairwiseDistinct(last'.occlusion_map)
    /\ FootprintInGrid(last'.pos, last'.occlusion_map)
    /\ \A i \in 1 .. Len(last'.occlusion_map) :
          TileFree(chunks, FootprintCell(last'.pos, last'.occlusion_map, i))

\* the first position of a footprint holding an offset listed before it
FirstRepeat(occlusion_map) ==
    CHOOSE k \in 1 .. Len(occlusion_map) :
        /\ \E j \in 1 .. k - 1 : occlusion_map[j] = occlusion_map[k]
        /\ \A l \in 1 .. k - 1 :
              \A j \in 1 .. l - 1 : occlusion_map[j] # occlusion_map[l]

OccupancyOnlyByPlacement ==
    [][\A p \in DOMAIN chunks :
          /\ p \in DOMAIN chunks'
          /\ chunks'[p] # chunks[p] => (Called("try_place") /\ last'.ret = "true")
          /\ (Called("create_chunk") \/ Called("is_occupied")) => chunks'[p] = chunks[p]]_vars

\* C20  Frame of placement and query: a try_place call that returns true
\* turns exactly the cells anchor + offset of its footprint from free to
\* occupied and changes no other cell; try_place and is_occupied calls never
\* change the set of chunk coordinates, which only a create_chunk call does.
PlacementFrame ==
    [][/\ (Called("try_place") /\ last'.ret = "true") =>
            /\ \A i \in 1 .. Len(last'.occlusion_map) :
                  LET c == global_to_chunk(IVec2_add(last'.pos, last'.occlusion_map[i]))
                  IN /\ c[1] \in DOMAIN chunks
                     /\ ~chunks[c[1]].tiles[c[2].x][c[2].y]
                     /\ chunks'[c[1]].tiles[c[2].x][c[2].y]
            /\ \A p \in DOMAIN chunks : \A x, y \in LocalAxis :
                  chunks'[p].tiles[x][y] # chunks[p].tiles[x][y] =>
                     \E i \in 1 .. Len(last'.occlusion_map) :
                        global_to_chunk(IVec2_add(last'.pos, last'.occlusion_map[i]))
                           = <<p, IVec2_new(x, y)>>
       /\ (Called("try_place") \/ Called("is_occupied")) => DOMAIN chunks' = DOMAIN chunks
       /\ DOMAIN chunks' # DOMAIN chunks => Called("create_chunk")]_vars

\* C20 case: the three-cell footprint has just been placed across a chunk
\* border, next to a cell occupied before; no other chunk exists
PlacementFrameWitness ==
    /\ last.op = "try_place" /\ last.ret = "true"
    /\ last.occlusion_map = Footprint3
    /\ last.pos = IVec2_new(-1, 0)
    /\ TileSet(chunks, IVec2_new(0, 1))
    /\ DOMAIN chunks = {IVec2_new(-1, 0), IVec2_new(0, 0)}


\* the step is a try_place call whose check phase passes for all offsets
CheckPhasePassed ==
    /\ Called("try_place")
    /\ check_occlusion(chunks, last'.pos, last'.occlusion_map, 1, overflow_checks) = "pass"

\* C21  Commit-phase assertion validity: when the check phase of a try_place
\* call has passed for all offsets, the chunk of every footprint cell is in
\* the map throughout the commit phase (the expect finds it), and for a
\* footprint with pairwise distinct offsets the call returns true: neither
\* the expect nor the assertion that the cell is free fires.
CommitAssertionsValid ==
    [][CheckPhasePassed =>
          /\ \A i \in 1 .. Len(last'.occlusion_map) :
                global_to_chunk(IVec2_add(last'.pos, last'.occlusion_map[i]))[1]
                   \in (DOMAIN chunks) \cap (DOMAIN chunks')
          /\ PairwiseDistinct(last'.occlusion_map) =>
                (last'.ret = "true" /\ ~panicked')]_vars

\* C21 case: the barracks footprint has just been committed into two chunks
CommitAssertionsValidWitness ==
    /\ last.op = "try_place" /\ last.ret = "true" /\ ~panicked
    /\ last.occlusion_map = FootprintBarracks
    /\ last.pos = IVec2_new(-1, 0)
    /\ \A i \in 1 .. 4 : TileSet(chunks, FootprintCell(last.pos, FootprintBarracks, i))


\* the step is the run of setup_map, on the empty Map
RunsSetupMap ==
    /\ "setup_map" \notin started /\ "setup_map" \in started'
    /\ chunks = <<>>

\* C22  Start-up map initialisation: setup_map on the empty Map creates the
\* 16 chunks (x,y), x,y in {-2,-1,0,1}, without a create_chunk on an existing
\* chunk, every placement at cell (16x+2, 16y+2) succeeds, so neither
\* assertion fails, and afterwards each of the 16 chunks has local cell (2,2)
\* occupied and every other cell free.
SetupMapInitialises ==
    [][RunsSetupMap =>
          /\ ~panicked'
          /\ DOMAIN chunks' = {IVec2_new(x, y) : x, y \in -2 .. 1}
          /\ chunk_entities' = DOMAIN chunks'
          /\ Len(toasts') = 16
          /\ \A p \in DOMAIN chunks' : \A x, y \in LocalAxis :
                chunks'[p].tiles[x][y] = (x = 2 /\ y = 2)
          /\ \A p \in DOMAIN chunks' :
                TileSet(chunks', IVec2_new(16 * p.x + 2, 16 * p.y + 2))]_vars

\* C22 case: setup_map has run, alone, and the sixteen chunks are there
SetupMapInitialisesWitness ==
    /\ started = {"setup_map"}
    /\ ~panicked
    /\ Cardinality(DOMAIN chunks) = 16
    /\ TileSet(chunks, IVec2_new(-30, -30)) /\ TileSet(chunks, IVec2_new(18, 18))
    /\ TileFree(chunks, IVec2_new(-29, -30))


\* the most recent register call logged a warning
Warned == \E i \in 1 .. Len(reg_last.logged) : reg_last.logged[i] = "warn"

\* C23  Overwrite warning: in the building, command and control panel
\* registries a register call logs a warning exactly when its key was
\* registered before (the call is then not the first under its key), and
\* the new entry is stored either way.
OverwriteWarning ==
    reg_last.op = "register" =>
        /\ Warned <=> Cardinality(RegistrationsOf(reg_last.registry, reg_last.key)) > 1
        /\ LatestRegistered(reg_last.registry, reg_last.key)
              = Some(reg_history[Len(reg_history)].entry)
        /\ reg_last.registry = "buildings" =>
              HashMap_get(buildings, reg_last.key) = Some(reg_history[Len(reg_history)].entry)
        /\ reg_last.registry = "behaviors" =>
              HashMap_get(behaviors, reg_last.key) = Some(reg_history[Len(reg_history)].entry)
        /\ reg_last.registry = "panels" =>
              HashMap_get(panels, reg_last.key) = Some(reg_history[Len(reg_history)].entry)


\* the systems that call create_chunk or try_place, and those that call is_occupied
MapMutators == {"setup_map", "player_controls"}
MapReaders == {"debug_chunk_fields"}

\* C24  Serialized access to the Map: while a system that mutates the Map
\* (setup_map, player_controls) is in progress, no other system that mutates
\* or reads the Map is in progress; in particular, between the check phase
\* and the commit phase of player_controls' try_place the Map is as the
\* check phase saw it.
SerializedMapAccess ==
    /\ \A system \in MapMutators : Active(system) =>
          \A other \in (MapMutators \cup MapReaders) \ {system} : ~Active(other)
    /\ sys_pc["player_controls"] = "checked" =>
          /\ pending # None
          /\ check_occlusion(chunks, pending.value, buildings[BARRACKS_ID].occlusion_map, 1,
                             overflow_checks) = "pass"

\* C24 case: player_controls is between the check and the commit phase while
\* a system that does not touch the Map is in progress and the Map's reader
\* has to wait
SerializedMapAccessWitness ==
    /\ sys_pc["player_controls"] = "checked"
    /\ sys_pc["debug_chunk_bounds"] = "started"
    /\ sys_pc["debug_chunk_fields"] = "waiting"
    /\ pending = Some(IVec2_new(15, 15))


\* the cells of a placement, as the chunk and local position try_place computes
CellsOf(placement) ==
    {global_to_chunk(IVec2_add(placement.pos, placement.occlusion_map[i])) :
        i \in 1 .. Len(placement.occlusion_map)}

\* the cells whose flag is set
OccupiedCells ==
    {c \in (DOMAIN chunks) \X {IVec2_new(x, y) : x, y \in LocalAxis} :
        chunks[c[1]].tiles[c[2].x][c[2].y]}

\* in this state: the placements that returned true have pairwise disjoint
\* cells, and the set flags are exactly the cells of those placements
Booked ==
    /\ \A a, b \in placements : a # b => CellsOf(a) \cap CellsOf(b) = {}
    /\ \A a \in placements : \A c \in CellsOf(a) :
          c[1] \in DOMAIN chunks /\ chunks[c[1]].tiles[c[2].x][c[2].y]
    /\ Cardinality(OccupiedCells) = Cardinality(UNION {CellsOf(a) : a \in placements})

\* C25  No double-booking: after any sequence of create_chunk and try_place
\* calls with duplicate-free footprints the cells of the placements that
\* returned true are pairwise disjoint and a cell's flag is set exactly when
\* the cell belongs to one of them; a try_place whose footprint overlaps an
\* earlier successful placement returns false.
NoDoubleBooking ==
    [][/\ Booked'
       /\ (Called("try_place")
             /\ \E a \in placements :
                   CellsOf(a) \cap CellsOf(Placement(last'.pos, last'.occlusion_map)) # {}
             /\ FootprintInGrid(last'.pos, last'.occlusion_map))
          => last'.ret = "false"]_vars


\* C26  Panel-tree referential integrity: in every tree setup_ui registered
\* the root panel name is a key of the tree's panel map, and so is the
\* target of every Push transition in its panels.
PanelTreeIntegrity ==
    "setup_ui" \in started =>
        \A entity_type \in DOMAIN panels :
            LET tree == panels[entity_type]
            IN /\ tree.root \in DOMAIN tree.panels
               /\ \A name \in DOMAIN tree.panels :
                     \A slot \in DOMAIN tree.panels[name].entries :
                        LET action == tree.panels[name].entries[slot]
                        IN (action.action \in {"TransitionPanel", "ExecuteAndTransition"}
                              /\ action.transition.transition = "Push")
                           => action.transition.panel \in DOMAIN tree.panels

\* C27  Command reachability from panels: after setup_ui every command
\* identifier an action of a registered panel executes is registered in the
\* CommandRegistry and caught by at least one registered dispatcher.
PanelCommandsReachable ==
    "setup_ui" \in started =>
        \A entity_type \in DOMAIN panels :
            LET tree == panels[entity_type]
            IN \A name \in DOMAIN tree.panels :
                  \A slot \in DOMAIN tree.panels[name].entries :
                     LET action == tree.panels[name].entries[slot]
                     IN action.action \in {"ExecuteCommand", "ExecuteAndTransition"} =>
                           /\ CommandRegistry_get(behaviors, action.command_id) # None
                           /\ \E i \in 1 .. Len(dispatchers) :
                                 catches(dispatchers[i], action.command_id)

====
